---- MODULE Spec2Model ----
(***************************************************************************)
(* EAST UPS Home Assistant integration: the coordinator's poll cycle, its  *)
(* link lock, the Modbus client handle, the register decoders and the      *)
(* button platform's command path.                                         *)
(*                                                                         *)
(* asyncio runs one coroutine at a time: the code between two awaits is    *)
(* one atomic step.  The awaits of _async_update_data are the lock         *)
(* acquisition, client.connect(), the register read and asyncio.sleep.     *)
(*                                                                         *)
(* Numbers: a decoded numeric value is the exact rational n/den together   *)
(* with the Python type it has (float or int); binary rounding of floats   *)
(* is not modelled.  Python integers are unbounded: n is kept as two       *)
(* digits in base 65536, n = hi * 65536 + lo with lo in 0..65535, so that  *)
(* a 32-bit register pair is held without overflow.  Text decoded from     *)
(* registers is a sequence of character codes; literal labels of the value *)
(* maps are strings.                                                       *)
(***************************************************************************)
EXTENDS Integers, Sequences, FiniteSets, TLC

VARIABLES
    holder,      \* task holding self._lock, 0 when free
    waiters,     \* FIFO queue of tasks blocked in self._lock.acquire()
    client,      \* self._client: a client object id, 0 for None
    clients,     \* state of every referenced client object
    leaked,      \* states of client objects dropped without close()
    pc,          \* where each _async_update_data invocation stands
    idx,         \* position of each invocation in self._sensors
    registers,   \* the local 'registers' of each invocation
    data,        \* the local 'data' of each invocation, with the reads that filled it
    alias,       \* whether that local dict is the very object coordinator.data holds
    conn,        \* the client object whose connect() an invocation awaits
    result,      \* how the last finished invocation ended
    published,   \* coordinator.data: None or the dict the last good cycle returned
    press,       \* the last button press and how it ended
    writes,      \* transport write calls issued so far
    decodeIn,    \* decoder check: the register definition and the words
    decodeOut,   \* decoder check: the decoded value
    model,       \* self._model
    sensors      \* self._sensors: the register map the constructor obtained

vars == <<holder, waiters, client, clients, leaked, pc, idx, registers, data, alias,
          conn, result, published, press, writes, decodeIn, decodeOut, model,
          sensors>>

-----------------------------------------------------------------------------
(* Bounds *)

NumTasks == 2      \* concurrent invocations of _async_update_data
MaxWords == 2      \* longest word list handed to the decoder check

Tasks == 1..NumTasks
ClientIds == 1..(NumTasks + 1)

-----------------------------------------------------------------------------
(* const.py: register definitions and value maps *)

FloatScale(n, d) == [num |-> n, den |-> d, float |-> TRUE]
IntScale(n) == [num |-> n, den |-> 1, float |-> FALSE]

EastUPSRegisterDefinition(address, scale, input_type, data_type, count) ==
    [address |-> address, scale |-> scale, input_type |-> input_type,
     data_type |-> data_type, count |-> count]

NoRegister == EastUPSRegisterDefinition(0 - 1, IntScale(1), "none", "none", 0)

\* the labels keyed from 1 on
FromLabelsOneBased(labels) == [code \in 1..Len(labels) |-> labels[code]]

\* a dict {0: labels[1], 1: labels[2], ...}
FromLabels(labels) == [code \in 0..(Len(labels) - 1) |-> labels[code + 1]]

SYSTEM_MODE_TEXT ==
    FromLabels(<<"Fault", "Power On", "Standby", "Bypass", "Grid", "Battery",
                 "Battery Check", "Fault", "Frequency Convert", "ECO", "Shutdown",
                 "Test">>)

BATTERY_STATUS_TEXT ==
    FromLabels(<<"Disconnected", "Standby", "Boost Charging", "Float Charging",
                 "Discharging">>)

RECTIFIER_STATUS_TEXT == FromLabels(<<"Off", "Soft Start", "PFC Mode", "Battery Mode">>)

INVERTER_STATUS_TEXT == FromLabels(<<"Off", "Soft Start", "Normal", "Standby">>)

BYPASS_STATUS_TEXT == FromLabels(<<"No Bypass", "Normal">>)

LOAD_ON_STATUS_TEXT ==
    FromLabels(<<"None", "Load on Bypass", "Load on Inverter", "Load on Other">>)

\* the value_map of a sensor description, by name; "none" is value_map=None
ValueMaps ==
    [none |-> FromLabels(<<>>),
     system_mode |-> SYSTEM_MODE_TEXT,
     battery_status |-> BATTERY_STATUS_TEXT,
     rectifier_status |-> RECTIFIER_STATUS_TEXT,
     inverter_status |-> INVERTER_STATUS_TEXT,
     bypass_status |-> BYPASS_STATUS_TEXT,
     load_on_status |-> LOAD_ON_STATUS_TEXT]

EastUPSSensorEntityDescription(key, register, value_map) ==
    [key |-> key, register |-> register, value_map |-> value_map]

\* The entries of EA900_G4_SENSORS the poll cycle of the model walks, in the
\* order of the map: a signed scaled input register, the status word, the five
\* derived entries, and the string in the holding bank.
EA900_G4_SENSORS ==
    << EastUPSSensorEntityDescription("bypass_voltage",
           EastUPSRegisterDefinition(0, FloatScale(1, 10), "input", "int16", 1), "none"),
       EastUPSSensorEntityDescription("status_word",
           EastUPSRegisterDefinition(70, IntScale(1), "input", "uint16", 1), "none"),
       EastUPSSensorEntityDescription("battery_status", NoRegister, "battery_status"),
       EastUPSSensorEntityDescription("rectifier_status", NoRegister, "rectifier_status"),
       EastUPSSensorEntityDescription("inverter_status", NoRegister, "inverter_status"),
       EastUPSSensorEntityDescription("bypass_status", NoRegister, "bypass_status"),
       EastUPSSensorEntityDescription("load_on_status", NoRegister, "load_on_status"),
       EastUPSSensorEntityDescription("serial_number",
           EastUPSRegisterDefinition(76, IntScale(1), "holding", "string", 7), "none") >>

Keys == {EA900_G4_SENSORS[i].key : i \in 1..Len(EA900_G4_SENSORS)}

DirectIdx == {i \in 1..Len(EA900_G4_SENSORS) : EA900_G4_SENSORS[i].register # NoRegister}

\* the keys of EA900_G4_SENSORS whose entry has a register, all of them
RegisterKeys ==
    {"bypass_voltage", "bypass_current", "bypass_frequency", "bypass_power_factor",
     "input_voltage", "input_current", "input_frequency", "input_power_factor",
     "output_voltage", "output_current", "output_frequency", "output_power_factor",
     "output_apparent_power", "output_active_power", "output_reactive_power",
     "load_percentage", "battery_voltage", "battery_current", "battery_temperature",
     "battery_remaining_time", "battery_remaining_capacity", "inverter_current",
     "rectifier_temperature", "inverter_temperature", "ups_run_days",
     "software_version", "status_word", "system_mode", "rated_power",
     "battery_count", "cell_float_voltage", "cell_boost_voltage",
     "battery_maintenance_cycle", "running_time", "serial_number"}

\* EA900_G4_INPUT_REGISTERS["system_mode"]: the one entry that has both a
\* register and a value map; the poll cycle of the model leaves it out
SystemModeSensor ==
    EastUPSSensorEntityDescription("system_mode",
        EastUPSRegisterDefinition(71, IntScale(1), "input", "int16", 1), "system_mode")

MODEL_EA900_G4 == "EA900 G4"
MODEL_EA660_G4 == "EA660 G4"

SUPPORTED_MODELS == {MODEL_EA900_G4, MODEL_EA660_G4}

\* the EA660 G4 entry is commented out in the source
MODEL_REGISTER_MAP == [m \in {MODEL_EA900_G4} |-> EA900_G4_SENSORS]

-----------------------------------------------------------------------------
(* Values held by a snapshot *)

Missing == [kind |-> "missing"]          \* the key is not in the dict
NoneValue == [kind |-> "None"]
Wide(hi, lo, d, f) == [kind |-> "num", hi |-> hi, lo |-> lo, den |-> d, float |-> f]
Num(n, d, f) == Wide(n \div 65536, n % 65536, d, f)
Chars(s) == [kind |-> "chars", chars |-> s]
Label(s) == [kind |-> "label", text |-> s]
IndexError == [kind |-> "IndexError"]    \* registers[0] on an empty list

\* int(x) of Python, truncation towards zero, as a number [hi, lo]
PyInt(v) ==
    IF v.hi >= 0
    THEN [hi |-> v.hi \div v.den, lo |-> ((v.hi % v.den) * 65536 + v.lo) \div v.den]
    ELSE LET n == 0 - (v.hi * 65536 + v.lo)
         IN  [hi |-> (0 - (n \div v.den)) \div 65536, lo |-> (0 - (n \div v.den)) % 65536]

\* the value of [hi, lo] where it is small
Small(n) == n.hi * 65536 + n.lo

IsSmall(n) == n.hi \in (0 - 1)..0

Pad4(r) ==
    (IF r < 10 THEN "000" ELSE IF r < 100 THEN "00" ELSE IF r < 1000 THEN "0" ELSE "")
        \o ToString(r)

\* str(n)
Decimal(n) ==
    IF n.hi < 0 THEN ToString(Small(n))
    ELSE LET r == (n.hi % 10000) * 65536 + n.lo
             q == (n.hi \div 10000) * 65536 + r \div 10000
         IN  IF q = 0 THEN ToString(r % 10000) ELSE ToString(q) \o Pad4(r % 10000)

\* f"Unknown ({int_value})"
Unknown(n) == Label("Unknown (" \o Decimal(n) \o ")")

-----------------------------------------------------------------------------
(* coordinator.py: decoders *)

\* str.isspace() over the characters chr(1)..chr(255)
IsSpace(c) == c \in {9, 10, 11, 12, 13, 28, 29, 30, 31, 32, 133, 160}

RECURSIVE LStrip(_)
LStrip(s) == IF s # <<>> /\ IsSpace(Head(s)) THEN LStrip(Tail(s)) ELSE s

RECURSIVE RStrip(_)
RStrip(s) ==
    IF s # <<>> /\ IsSpace(s[Len(s)]) THEN RStrip(SubSeq(s, 1, Len(s) - 1)) ELSE s

strip(s) == RStrip(LStrip(s))

RECURSIVE chars_of(_)
chars_of(regs) ==
    IF regs = <<>> THEN <<>>
    ELSE LET reg == Head(regs)
             high_byte == (reg \div 256) % 256
             low_byte == reg % 256
         IN  (IF high_byte # 0 THEN <<high_byte>> ELSE <<>>)
             \o (IF low_byte # 0 THEN <<low_byte>> ELSE <<>>)
             \o chars_of(Tail(regs))

\* the joined characters are returned as they are
_decode_string_untrimmed(regs) == Chars(chars_of(regs))

_decode_string(regs) == Chars(strip(chars_of(regs)))

\* config_flow.py, _test_connection: the loop over serial_response.registers,
\* from position i on
RECURSIVE serial_chars(_, _)
serial_chars(regs, i) ==
    IF i > Len(regs) THEN <<>>
    ELSE LET reg == regs[i]
             high_byte == (reg \div 256) % 256
             low_byte == reg % 256
         IN  (IF high_byte # 0 THEN <<high_byte>> ELSE <<>>)
             \o (IF low_byte # 0 THEN <<low_byte>> ELSE <<>>)
             \o serial_chars(regs, i + 1)

\* serial = "".join(chars).strip()
_test_connection_serial(regs) == strip(serial_chars(regs, 1))

\* raw * reg.scale: an int times an int scale is an int, anything else a float
Times(raw, scale) == Num(raw * scale.num, scale.den, scale.float)

\* ((registers[0] << 16) | registers[1]) * reg.scale
TimesWide(high, low, scale) ==
    Wide(high * scale.num + (low * scale.num) \div 65536, (low * scale.num) % 65536,
         scale.den, scale.float)

\* the first register is taken as the low half
decode_int32_low_first(regs, reg) == TimesWide(regs[2], regs[1], reg.scale)

\* the "Handle different data types" chain of _async_update_data
decode_int32(regs, reg) == TimesWide(regs[1], regs[2], reg.scale)

decode_uint16(regs, reg) ==
    IF Len(regs) = 0 THEN IndexError ELSE Num(regs[1], 1, FALSE)

\* the word is taken as it is, without the sign
decode_int16_unsigned(regs, reg) ==
    IF Len(regs) = 0 THEN IndexError ELSE Times(regs[1], reg.scale)

decode_int16(regs, reg) ==
    IF Len(regs) = 0 THEN IndexError
    ELSE LET raw_value == IF regs[1] > 32767 THEN regs[1] - 65536 ELSE regs[1]
         IN  Times(raw_value, reg.scale)

decode_value(regs, reg) ==
    IF reg.data_type = "string" THEN _decode_string(regs)
    ELSE IF reg.data_type = "int32" /\ Len(regs) >= 2 THEN decode_int32(regs, reg)
    ELSE IF reg.data_type = "uint16" THEN decode_uint16(regs, reg)
    ELSE decode_int16(regs, reg)

\* value_map[int_value] in place of value_map.get(int_value, ...)
apply_value_map_subscript(value, value_map) ==
    IF value_map # "none" /\ value.kind = "num"
    THEN LET int_value == PyInt(value)
             map == ValueMaps[value_map]
         IN  IF IsSmall(int_value) /\ Small(int_value) \in DOMAIN map
             THEN Label(map[Small(int_value)])
             ELSE [kind |-> "KeyError"]
    ELSE value

\* "Apply value mapping if defined"
apply_value_map(value, value_map) ==
    IF value_map # "none" /\ value.kind = "num"
    THEN LET int_value == PyInt(value)
             map == ValueMaps[value_map]
         IN  IF IsSmall(int_value) /\ Small(int_value) \in DOMAIN map
             THEN Label(map[Small(int_value)])
             ELSE Unknown(int_value)
    ELSE value

\* registers -> data[key], for a read that returned a word list
decode_sensor(regs, sensor_desc) ==
    LET value == decode_value(regs, sensor_desc.register)
    IN  IF value = IndexError THEN IndexError
        ELSE apply_value_map(value, sensor_desc.value_map)

Field(word, offset, mask) == (word \div (2 ^ offset)) % (mask + 1)

\* TEXT.get(code, f"Unknown ({code})")
MapLabel(map, code) ==
    IF code \in DOMAIN map THEN Label(map[code]) ELSE Unknown([hi |-> 0, lo |-> code])

\* the bypass field taken one bit too low
_parse_status_word_overlap(status_word) ==
    [rectifier_status |-> MapLabel(RECTIFIER_STATUS_TEXT, Field(status_word, 0, 3)),
     inverter_status |-> MapLabel(INVERTER_STATUS_TEXT, Field(status_word, 2, 3)),
     battery_status |-> MapLabel(BATTERY_STATUS_TEXT, Field(status_word, 4, 7)),
     bypass_status |-> MapLabel(BYPASS_STATUS_TEXT, Field(status_word, 6, 3)),
     load_on_status |-> MapLabel(LOAD_ON_STATUS_TEXT, Field(status_word, 9, 3))]

_parse_status_word(status_word) ==
    [rectifier_status |-> MapLabel(RECTIFIER_STATUS_TEXT, Field(status_word, 0, 3)),
     inverter_status |-> MapLabel(INVERTER_STATUS_TEXT, Field(status_word, 2, 3)),
     battery_status |-> MapLabel(BATTERY_STATUS_TEXT, Field(status_word, 4, 7)),
     bypass_status |-> MapLabel(BYPASS_STATUS_TEXT, Field(status_word, 7, 3)),
     load_on_status |-> MapLabel(LOAD_ON_STATUS_TEXT, Field(status_word, 9, 3))]

-----------------------------------------------------------------------------
(* The transport: what a register read may return *)

\* the words the device holds for each polled register
DeviceWords ==
    [bypass_voltage |-> <<2301>>,
     status_word |-> <<678>>,
     serial_number |-> <<16706, 67, 8224, 0, 0, 0, 0>>]

\* a response that is no error carries the full word list or a shorter one
Responses(key) == {DeviceWords[key], <<>>}

-----------------------------------------------------------------------------
(* State *)

NoneRegisters == [none |-> TRUE, words |-> <<>>]
Words(w) == [none |-> FALSE, words |-> w]

\* an empty dict, and no transport read issued for it yet
EmptyDict == [data |-> [k \in Keys |-> Missing], reads |-> <<>>]

\* coordinator.data
NoSnapshot == [set |-> FALSE, data |-> EmptyDict.data]
Snapshot(d) == [set |-> TRUE, data |-> d]

NoPress == [key |-> "none", register |-> 0, value |-> 0, result |-> "none"]

NoInput == [desc |-> EastUPSSensorEntityDescription("none", NoRegister, "none"),
            words |-> <<>>]

\* button.py: BUTTON_DESCRIPTIONS (key, register, value)
BUTTON_DESCRIPTIONS ==
    << [key |-> "clear_fault", register |-> 32768, value |-> 1],
       [key |-> "clear_history", register |-> 32769, value |-> 1],
       [key |-> "buzzer_mute", register |-> 32770, value |-> 1],
       [key |-> "buzzer_unmute", register |-> 32770, value |-> 0],
       [key |-> "battery_test_20s", register |-> 32774, value |-> 1],
       [key |-> "battery_test_maintenance", register |-> 32774, value |-> 2],
       [key |-> "stop_battery_test", register |-> 32775, value |-> 1],
       [key |-> "switch_to_bypass", register |-> 32771, value |-> 1],
       [key |-> "switch_to_inverter", register |-> 32772, value |-> 1] >>

\* the buttons the model presses: one command with value 1 and the one with 0
Pressed == {1, 4}

\* EastUPSCoordinator.__init__ and the state before the first refresh
CoordinatorInit ==
    /\ holder = 0
    /\ waiters = <<>>
    /\ client = 0
    /\ clients = [o \in ClientIds |-> "free"]
    /\ leaked = {}
    /\ pc = [t \in Tasks |-> "idle"]
    /\ idx = [t \in Tasks |-> 0]
    /\ registers = [t \in Tasks |-> NoneRegisters]
    /\ data = [t \in Tasks |-> EmptyDict]
    /\ alias = [t \in Tasks |-> FALSE]
    /\ conn = [t \in Tasks |-> 0]
    /\ result = "none"
    /\ published = NoSnapshot
    /\ press = NoPress
    /\ writes = <<>>

\* entry.data of the config entry, as far as the model is concerned: CONF_MODEL
\* is absent, a supported model, or a string that names no model
NoModelEntry == [has_model |-> FALSE, model |-> ""]
ModelEntry(m) == [has_model |-> TRUE, model |-> m]

ConfigEntries == {NoModelEntry} \cup {ModelEntry(m) : m \in SUPPORTED_MODELS \cup {"EA990 G5"}}

KeyError == [kind |-> "KeyError"]

\* d[k]
dict_subscript(d, k, default) == IF k \in DOMAIN d THEN d[k] ELSE KeyError

\* d.get(k, default)
dict_get(d, k, default) == IF k \in DOMAIN d THEN d[k] ELSE default

\* EastUPSCoordinator.__init__: self._model and self._sensors
__init__(entry) ==
    /\ model = IF entry.has_model THEN entry.model ELSE MODEL_EA900_G4
    /\ sensors = dict_get(MODEL_REGISTER_MAP, model, MODEL_REGISTER_MAP[MODEL_EA900_G4])

\* the coordinator of a config entry that names no model
Init ==
    /\ CoordinatorInit
    /\ __init__(NoModelEntry)
    /\ decodeIn = NoInput
    /\ decodeOut = Missing

-----------------------------------------------------------------------------
(* Client objects *)

\* self._client is not None, whatever its connected says
ConnectedHandleOnly(c, table) == c # 0

\* self._client is not None and self._client.connected, over a client table
Connected(c, table) == c # 0 /\ table[c] = "up"

\* a client object nothing refers to any more: its id is free again; if it
\* was connected at some time and never closed, its state stays in 'leaked'
Unreferenced(o, c, cn) == o # c /\ \A t \in Tasks : cn[t] # o

SweepClients(table, c, cn) ==
    [o \in ClientIds |-> IF Unreferenced(o, c, cn) THEN "free" ELSE table[o]]

SweepLeaked(table, c, cn) ==
    leaked \cup {table[o] : o \in {x \in ClientIds :
                     Unreferenced(x, c, cn) /\ table[x] \in {"up", "down"}}}

\* the id of a newly built client object: the least one free in the table
FreshClient(table) ==
    CHOOSE o \in ClientIds : table[o] = "free" /\ \A x \in ClientIds : table[x] = "free" => o <= x

-----------------------------------------------------------------------------
(* coordinator.py: _async_update_data, one step per stretch between awaits *)

\* a lock that never makes a caller wait
LockFreeNoLock == TRUE

\* async with self._lock: acquire() returns at once only when the lock is free
\* and nobody is queued for it
LockFree == holder = 0 /\ waiters = <<>>

\* the dict coordinator.data holds is filled again instead of a new one
NewDataReused ==
    [obj |-> [data |-> published.data, reads |-> <<>>], alias |-> published.set]

\* data: dict[str, Any] = {}: a new object, distinct from coordinator.data
NewData == [obj |-> EmptyDict, alias |-> FALSE]

\* the next entry of self._sensors after position i that has a register, 0 if none
NextDirect(i) ==
    IF \E j \in DirectIdx : j > i
    THEN CHOOSE j \in DirectIdx : j > i /\ \A k \in DirectIdx : k > i => j <= k
    ELSE 0

\* every read goes to the input bank, whatever reg.input_type says
ReadRecordInputBank(sensor_desc, outcome) ==
    [key |-> sensor_desc.key,
     input_type |-> "input",
     address |-> sensor_desc.register.address,
     count |-> sensor_desc.register.count,
     outcome |-> outcome]

ReadRecord(sensor_desc, outcome) ==
    [key |-> sensor_desc.key,
     input_type |-> sensor_desc.register.input_type,
     address |-> sensor_desc.register.address,
     count |-> sensor_desc.register.count,
     outcome |-> outcome]

\* the derived keys are never merged
MergeStatusNever(d) == d

\* "Parse status word to derive ...": data.update(status_values)
MergeStatus(d) ==
    IF d["status_word"] # Missing /\ d["status_word"] # NoneValue
    THEN LET status_values == _parse_status_word(Small(PyInt(d["status_word"])))
         IN  [k \in Keys |-> IF k \in DOMAIN status_values THEN status_values[k]
                             ELSE d[k]]
    ELSE d

\* an exception leaves the coroutine and the lock stays with it
AbortKeepsLock(t, kind) ==
    /\ holder' = holder
    /\ pc' = [pc EXCEPT ![t] = "idle"]
    /\ idx' = [idx EXCEPT ![t] = 0]
    /\ registers' = [registers EXCEPT ![t] = NoneRegisters]
    /\ result' = kind
    /\ data' = [data EXCEPT ![t] = EmptyDict]
    /\ alias' = [alias EXCEPT ![t] = FALSE]
    /\ published' = published

\* an exception leaves the coroutine: the async with block releases the lock,
\* nothing is returned and coordinator.data keeps the object it holds
Abort(t, kind) ==
    /\ holder' = 0
    /\ pc' = [pc EXCEPT ![t] = "idle"]
    /\ idx' = [idx EXCEPT ![t] = 0]
    /\ registers' = [registers EXCEPT ![t] = NoneRegisters]
    /\ result' = kind
    /\ data' = [data EXCEPT ![t] = EmptyDict]
    /\ alias' = [alias EXCEPT ![t] = FALSE]
    /\ published' = published

\* the loop from the entry after position i on, the local dict being obj (al:
\* it is the object coordinator.data holds): either the next
\* _async_read_register call, which awaits the transport when the client is
\* live and returns None at once when it is not, or the end of the loop, the
\* merge of the derived keys and the return of data, which the update
\* coordinator stores in coordinator.data
ContinueLoop(t, obj, al, i, live) ==
    LET j == NextDirect(i)
    IN  IF j = 0
        THEN /\ published' = Snapshot(MergeStatus(obj.data))
             /\ data' = [data EXCEPT ![t] = EmptyDict]
             /\ alias' = [x \in Tasks |-> FALSE]
             /\ holder' = 0
             /\ pc' = [pc EXCEPT ![t] = "idle"]
             /\ idx' = [idx EXCEPT ![t] = 0]
             /\ registers' = [registers EXCEPT ![t] = NoneRegisters]
             /\ result' = "snapshot"
        ELSE /\ published' = IF al THEN Snapshot(obj.data) ELSE published
             /\ data' = [data EXCEPT ![t] = obj]
             /\ alias' = [alias EXCEPT ![t] = al]
             /\ holder' = t
             /\ pc' = [pc EXCEPT ![t] = IF live THEN "reading" ELSE "sleeping"]
             /\ idx' = [idx EXCEPT ![t] = j]
             /\ registers' = [registers EXCEPT ![t] = NoneRegisters]
             /\ result' = result

\* the body of the async with block up to its first await: _async_connect
\* returns True at once on a live client, else builds a client, which replaces
\* the handle, and awaits its connect()
Enter(t) ==
    IF Connected(client, clients)
    THEN /\ ContinueLoop(t, NewData.obj, NewData.alias, 0, TRUE)
         /\ UNCHANGED <<client, clients, leaked, conn>>
    ELSE LET table == SweepClients(clients, 0, conn)
             o == FreshClient(table)
         IN  /\ client' = o
             /\ clients' = [table EXCEPT ![o] = "new"]
             /\ leaked' = SweepLeaked(clients, 0, conn)
             /\ conn' = [conn EXCEPT ![t] = o]
             /\ holder' = t
             /\ pc' = [pc EXCEPT ![t] = "connecting"]
             /\ UNCHANGED <<idx, registers, data, alias, result, published>>

\* _async_update_data is called
PollStart(t) ==
    /\ pc[t] = "idle"
    /\ IF LockFree
       THEN Enter(t) /\ UNCHANGED waiters
       ELSE /\ waiters' = Append(waiters, t)
            /\ pc' = [pc EXCEPT ![t] = "waiting"]
            /\ UNCHANGED <<holder, client, clients, leaked, idx, registers, data,
                           alias, conn, result, published>>
    /\ UNCHANGED <<press, writes, decodeIn, decodeOut, model, sensors>>

\* the released lock wakes its first waiter
Wake(t) ==
    /\ pc[t] = "waiting"
    /\ holder = 0
    /\ waiters # <<>>
    /\ Head(waiters) = t
    /\ waiters' = Tail(waiters)
    /\ Enter(t)
    /\ UNCHANGED <<press, writes, decodeIn, decodeOut, model, sensors>>

\* await self._client.connect() returns True
ConnectTrue(t) ==
    /\ pc[t] = "connecting"
    /\ LET cn == [conn EXCEPT ![t] = 0]
           table == [clients EXCEPT ![conn[t]] = "up"]
       IN  /\ clients' = SweepClients(table, client, cn)
           /\ leaked' = SweepLeaked(table, client, cn)
           /\ conn' = cn
           /\ ContinueLoop(t, NewData.obj, NewData.alias, 0, Connected(client, table))
    /\ UNCHANGED <<client, waiters, press, writes, decodeIn, decodeOut, model, sensors>>

\* the result of _async_connect is not looked at: the cycle goes on
ConnectFalseIgnored(t) ==
    /\ pc[t] = "connecting"
    /\ LET cn == [conn EXCEPT ![t] = 0]
       IN  /\ clients' = SweepClients(clients, client, cn)
           /\ leaked' = SweepLeaked(clients, client, cn)
           /\ conn' = cn
    /\ ContinueLoop(t, NewData.obj, NewData.alias, 0, Connected(client, clients))
    /\ UNCHANGED <<client, waiters, press, writes, decodeIn, decodeOut, model, sensors>>

\* await self._client.connect() returns False: raise UpdateFailed
ConnectFalse(t) ==
    /\ pc[t] = "connecting"
    /\ LET cn == [conn EXCEPT ![t] = 0]
       IN  /\ clients' = SweepClients(clients, client, cn)
           /\ leaked' = SweepLeaked(clients, client, cn)
           /\ conn' = cn
    /\ Abort(t, "UpdateFailed")
    /\ UNCHANGED <<client, waiters, press, writes, decodeIn, decodeOut, model, sensors>>

\* connect() raises: self._client = None, return False, raise UpdateFailed
ConnectRaise(t) ==
    /\ pc[t] = "connecting"
    /\ LET cn == [conn EXCEPT ![t] = 0]
       IN  /\ client' = 0
           /\ clients' = SweepClients(clients, 0, cn)
           /\ leaked' = SweepLeaked(clients, 0, cn)
           /\ conn' = cn
    /\ Abort(t, "UpdateFailed")
    /\ UNCHANGED <<waiters, press, writes, decodeIn, decodeOut, model, sensors>>

\* the awaited read ends; registers is bound and asyncio.sleep(0.1) is awaited
ReadEnds(t, outcome, regs) ==
    /\ data' = [data EXCEPT ![t].reads =
                    Append(@, ReadRecord(sensors[idx[t]], outcome))]
    /\ registers' = [registers EXCEPT ![t] = regs]
    /\ pc' = [pc EXCEPT ![t] = "sleeping"]
    /\ UNCHANGED <<holder, waiters, client, clients, leaked, idx, alias, conn,
                   result, published, press, writes, decodeIn, decodeOut, model, sensors>>

\* the response is no error: return response.registers
ReadResponse(t) ==
    /\ pc[t] = "reading"
    /\ \E words \in Responses(sensors[idx[t]].key) :
          ReadEnds(t, IF Len(words) = sensors[idx[t]].register.count
                      THEN "ok" ELSE "short", Words(words))

\* response.isError(): return None
ReadError(t) ==
    /\ pc[t] = "reading"
    /\ ReadEnds(t, "failed", NoneRegisters)

\* the handler of ModbusException also closes the client and drops the handle
ReadModbusExceptionDisconnects(t) ==
    /\ pc[t] = "reading"
    /\ data' = [data EXCEPT ![t].reads = Append(@, ReadRecord(sensors[idx[t]], "failed"))]
    /\ registers' = [registers EXCEPT ![t] = NoneRegisters]
    /\ pc' = [pc EXCEPT ![t] = "sleeping"]
    /\ client' = 0
    /\ LET table == IF client = 0 THEN clients ELSE [clients EXCEPT ![client] = "closed"]
       IN  /\ clients' = SweepClients(table, 0, conn)
           /\ leaked' = SweepLeaked(table, 0, conn)
    /\ UNCHANGED <<holder, waiters, idx, alias, conn, result, published, press, writes,
                   decodeIn, decodeOut, model, sensors>>

\* except ModbusException: return None
ReadModbusException(t) ==
    /\ pc[t] = "reading"
    /\ ReadEnds(t, "failed", NoneRegisters)

\* the read raises an exception that is no ModbusException: nothing catches it
ReadException(t) ==
    /\ pc[t] = "reading"
    /\ Abort(t, "Exception")
    /\ UNCHANGED <<waiters, client, clients, leaked, conn, press, writes,
                   decodeIn, decodeOut, model, sensors>>

\* a failed read leaves no entry in data
StoreSkipsNone(obj, sensor_desc, regs) ==
    IF regs.none THEN obj
    ELSE [obj EXCEPT !.data[sensor_desc.key] = decode_sensor(regs.words, sensor_desc)]

\* data[key] for the registers just read: None for None, else the decoded value
Store(obj, sensor_desc, regs) ==
    [obj EXCEPT !.data[sensor_desc.key] =
        IF regs.none THEN NoneValue ELSE decode_sensor(regs.words, sensor_desc)]

\* the sleep is over: registers is decoded and stored, and the loop goes on
SleepDone(t) ==
    /\ pc[t] = "sleeping"
    /\ LET sensor_desc == sensors[idx[t]]
           obj == Store(data[t], sensor_desc, registers[t])
       IN  IF obj.data[sensor_desc.key] = IndexError
           THEN Abort(t, "IndexError")
           ELSE ContinueLoop(t, obj, alias[t], idx[t], Connected(client, clients))
    /\ UNCHANGED <<waiters, client, clients, leaked, conn, press, writes,
                   decodeIn, decodeOut, model, sensors>>

\* async_shutdown -> _async_disconnect: close the client and drop the handle
async_shutdown ==
    /\ client # 0
    /\ LET table == [clients EXCEPT ![client] = "closed"]
       IN  /\ clients' = SweepClients(table, 0, conn)
           /\ leaked' = SweepLeaked(table, 0, conn)
    /\ client' = 0
    /\ UNCHANGED <<holder, waiters, pc, idx, registers, data, alias, conn, result,
                   published, press, writes, decodeIn, decodeOut, model, sensors>>

\* the serial link goes down: client.connected turns False
ConnectionLost ==
    /\ Connected(client, clients)
    /\ clients' = [clients EXCEPT ![client] = "down"]
    /\ UNCHANGED <<holder, waiters, client, leaked, pc, idx, registers, data, alias,
                   conn, result, published, press, writes, decodeIn, decodeOut, model,
          sensors>>

-----------------------------------------------------------------------------
(* button.py: EastUPSButton.async_press *)

\* self._coordinator.async_write_register(desc.register, desc.value):
\* EastUPSCoordinator defines no async_write_register, nor does its base class,
\* so the attribute lookup raises AttributeError before anything is called
async_press(b) ==
    /\ press' = [key |-> BUTTON_DESCRIPTIONS[b].key,
                 register |-> BUTTON_DESCRIPTIONS[b].register,
                 value |-> BUTTON_DESCRIPTIONS[b].value,
                 result |-> "AttributeError"]
    /\ press' # press
    /\ UNCHANGED <<holder, waiters, client, clients, leaked, pc, idx, registers,
                   data, alias, conn, result, published, writes, decodeIn, decodeOut, model, sensors>>

-----------------------------------------------------------------------------

Next ==
    \/ \E t \in Tasks : PollStart(t)
    \/ \E t \in Tasks : Wake(t)
    \/ \E t \in Tasks : ConnectTrue(t)
    \/ \E t \in Tasks : ConnectFalse(t)
    \/ \E t \in Tasks : ConnectRaise(t)
    \/ \E t \in Tasks : ReadResponse(t)
    \/ \E t \in Tasks : ReadError(t)
    \/ \E t \in Tasks : ReadModbusException(t)
    \/ \E t \in Tasks : ReadException(t)
    \/ \E t \in Tasks : SleepDone(t)
    \/ async_shutdown
    \/ ConnectionLost
    \/ \E b \in Pressed : async_press(b)

Spec == Init /\ [][Next]_vars

-----------------------------------------------------------------------------
(* The constructor on every config entry, followed by the poll cycle of one *)
(* task over the register map the constructor obtained.                     *)

InitSetup ==
    /\ CoordinatorInit
    /\ \E entry \in ConfigEntries : __init__(entry)
    /\ decodeIn = NoInput
    /\ decodeOut = Missing

NextSetup ==
    \/ PollStart(1)
    \/ ConnectTrue(1)
    \/ ConnectFalse(1)
    \/ ConnectRaise(1)
    \/ ReadResponse(1)
    \/ ReadError(1)
    \/ ReadModbusException(1)
    \/ ReadException(1)
    \/ SleepDone(1)
    \/ async_shutdown
    \/ ConnectionLost

SpecSetup == InitSetup /\ [][NextSetup]_vars

-----------------------------------------------------------------------------
(* The decoders on their own: every 16-bit word for the 16-bit encodings,    *)
(* and word lists of every length up to MaxWords for every encoding.        *)

AllWords == 0..65535

SampleWords == {0, 1, 32, 67, 255, 16706, 32767, 32768, 65535}

WordLists == UNION {[1..n -> SampleWords] : n \in 0..MaxWords}

DecodeScales == {IntScale(1), FloatScale(1, 1), FloatScale(1, 10), IntScale(100)}

DecodeTypes == {"int16", "uint16", "int32", "string"}

CountOf(data_type) ==
    IF data_type = "int32" THEN 2 ELSE IF data_type = "string" THEN MaxWords ELSE 1

Definition(data_type, scale, value_map) ==
    EastUPSSensorEntityDescription("metric",
        EastUPSRegisterDefinition(0, scale, "input", data_type, CountOf(data_type)),
        value_map)

\* one 16-bit word, any of the 65536, for a 16-bit encoding with scale 1
InitOneWord ==
    \E w \in AllWords, data_type \in {"int16", "uint16"},
       scale \in {IntScale(1), FloatScale(1, 1)} :
        decodeIn = [desc |-> Definition(data_type, scale, "none"), words |-> <<w>>]

\* a word list of any length up to MaxWords, for any definition
InitWordList ==
    \E words \in WordLists, data_type \in DecodeTypes, scale \in DecodeScales,
       value_map \in {"none", "system_mode"} :
        decodeIn = [desc |-> Definition(data_type, scale, value_map), words |-> words]

\* self._sensors[key]
Sensor(key) ==
    EA900_G4_SENSORS[CHOOSE i \in 1..Len(EA900_G4_SENSORS) : EA900_G4_SENSORS[i].key = key]

\* a register pair for the int32 encoding: any high word, the low word at its
\* least and its greatest
InitWordPair ==
    \E w0 \in AllWords, w1 \in {1, 65535} :
        decodeIn = [desc |-> Definition("int32", IntScale(1), "none"), words |-> <<w0, w1>>]

\* words of text: NUL, blank and letter in either byte
StringWords == {0, 32, 65, 8192, 8224, 8257, 16640, 16672, 16706}

InitString ==
    \E words \in UNION {[1..n -> StringWords] : n \in 0..MaxWords} :
        decodeIn = [desc |-> Definition("string", IntScale(1), "none"), words |-> words]

\* register 71 of the device, any 16-bit word
InitSystemMode ==
    \E w \in AllWords : decodeIn = [desc |-> SystemModeSensor, words |-> <<w>>]

\* register 70 of the device, any 16-bit word
InitStatusWord ==
    \E w \in AllWords : decodeIn = [desc |-> Sensor("status_word"), words |-> <<w>>]

InitDecode ==
    /\ CoordinatorInit
    /\ __init__(NoModelEntry)
    /\ \/ InitOneWord
       \/ InitWordList
       \/ InitWordPair
       \/ InitString
       \/ InitSystemMode
       \/ InitStatusWord
    /\ decodeOut = Missing

\* the decoding steps of _async_update_data applied to one word list
Decode ==
    /\ decodeOut = Missing
    /\ decodeOut' = decode_sensor(decodeIn.words, decodeIn.desc)
    /\ UNCHANGED <<holder, waiters, client, clients, leaked, pc, idx, registers,
                   data, alias, conn, result, published, press, writes, decodeIn,
                   model, sensors>>

\* the end of a cycle whose only read was the status word just decoded:
\* the derived keys are merged into data, and data is returned
ParseStatus ==
    /\ decodeIn.desc.key = "status_word"
    /\ decodeOut.kind = "num"
    /\ ~published.set
    /\ published' =
           Snapshot(MergeStatus([EmptyDict.data EXCEPT !["status_word"] = decodeOut]))
    /\ UNCHANGED <<holder, waiters, client, clients, leaked, pc, idx, registers,
                   data, alias, conn, result, press, writes, decodeIn, decodeOut,
                   model, sensors>>

NextDecode == Decode \/ ParseStatus

SpecDecode == InitDecode /\ [][NextDecode]_vars

-----------------------------------------------------------------------------
(* Properties *)

InCycle(t) == pc[t] \in {"connecting", "reading", "sleeping"}

\* the step in which task t leaves its cycle after the last sleep
Finishing(t) == pc[t] = "sleeping" /\ pc'[t] = "idle"

DirectKeys == {EA900_G4_SENSORS[i].key : i \in DirectIdx}

Populated(v) == v.kind \in {"num", "chars", "label"}

\* C1: a command write of a button press goes through the link lock like a
\* poll cycle: no read and no write are in flight together, and a press that
\* has ended has run its write, under the lock, once the lock was free.
C1_WriteSerialisedWithPoll ==
    /\ \A t \in Tasks : pc[t] = "reading" => holder = t
    /\ press # NoPress => press.result \in {"written", "write failed"}

\* C2: two poll cycles never overlap.  At most one invocation is between its
\* connect and its return, and it holds the lock; an invocation that waits for
\* the lock has made no connect and no read; and a waiting invocation leaves
\* the queue only by taking the lock and starting a cycle of its own.
C2_Inv ==
    /\ \A t1, t2 \in Tasks : InCycle(t1) /\ InCycle(t2) => t1 = t2
    /\ \A t \in Tasks : InCycle(t) => holder = t
    /\ \A t \in Tasks : pc[t] = "waiting" =>
          /\ \E i \in 1..Len(waiters) : waiters[i] = t
          /\ conn[t] = 0
          /\ data[t] = EmptyDict

C2_PollCyclesNeverOverlap ==
    /\ []C2_Inv
    /\ [][\A t \in Tasks : pc[t] = "waiting" /\ pc'[t] # "waiting" =>
              holder = 0 /\ holder' = t /\ InCycle(t)']_vars

\* a second invocation is queued behind a cycle that is reading
C2_Witness ==
    \E t1, t2 \in Tasks :
        /\ pc[t1] = "reading" /\ Len(data[t1].reads) > 0
        /\ pc[t2] = "waiting"
        /\ result = "snapshot"

\* C3: when a cycle has read every metric that has a register, exactly one of
\* the reads failed (error response or ModbusException) and the others
\* returned their words, the cycle returns a snapshot in which that metric is
\* None and every other metric carries a decoded value.
C3_OneFailedRead ==
    [][\A t \in Tasks :
          (/\ Finishing(t)
           /\ Len(data[t].reads) = Cardinality(DirectKeys)
           /\ Cardinality({i \in 1..Len(data[t].reads) :
                              data[t].reads[i].outcome = "failed"}) = 1
           /\ \A i \in 1..Len(data[t].reads) :
                  data[t].reads[i].outcome \in {"failed", "ok"})
          => /\ result' = "snapshot"
             /\ published'.set
             /\ \A i \in 1..Len(data[t].reads) :
                   LET r == data[t].reads[i]
                   IN  IF r.outcome = "failed"
                       THEN published'.data[r.key] = NoneValue
                       ELSE Populated(published'.data[r.key])]_vars

\* a snapshot with one metric None and the others decoded
C3_Witness ==
    /\ result = "snapshot"
    /\ published.set
    /\ published.data["status_word"] = NoneValue
    /\ published.data["bypass_voltage"] = Num(2301, 10, TRUE)
    /\ published.data["serial_number"] = Chars(<<65, 66, 67>>)
    /\ published.data["battery_status"] = Missing

\* C4: when the connection attempt of a cycle fails (connect returns False or
\* raises), the cycle ends there with UpdateFailed: it has issued no read, it
\* issues none, and coordinator.data keeps what it held.
C4_ConnectFailure ==
    [][\A t \in Tasks : ConnectFalse(t) \/ ConnectRaise(t) =>
          /\ pc'[t] = "idle"
          /\ result' = "UpdateFailed"
          /\ published' = published
          /\ data[t].reads = <<>>
          /\ data'[t] = EmptyDict
          /\ holder' = 0]_vars

\* a cycle has failed to connect and the earlier snapshot is still published
C4_Witness ==
    /\ result = "UpdateFailed"
    /\ published.set
    /\ \A t \in Tasks : pc[t] = "idle"

\* C5: a poll cycle ends in failure only when its connection attempt fails:
\* every finished cycle has returned a snapshot or raised UpdateFailed.
C5_OnlyConnectFails == result \in {"none", "snapshot", "UpdateFailed"}

\* C6: a word list shorter than the definition's count decodes to no value:
\* the metric is None, and no exception is raised.
C6_ShortReadIsAbsent ==
    (decodeOut # Missing /\ Len(decodeIn.words) < decodeIn.desc.register.count)
        => decodeOut = NoneValue

\* C7: coordinator.data is None or the complete result of a finished cycle:
\* every metric that has a register is in it, the local dict of a running
\* cycle is never the published object, and coordinator.data changes only in
\* the step in which a cycle returns its dict.
C7_Inv ==
    /\ \A t \in Tasks : ~alias[t]
    /\ published.set =>
          /\ \A k \in DirectKeys : published.data[k] # Missing
          /\ published.data = MergeStatus(published.data)
    /\ ~published.set => published = NoSnapshot

C7_SnapshotPublishedWhole ==
    /\ []C7_Inv
    /\ [][published' # published =>
              \E t \in Tasks : Finishing(t) /\ result' = "snapshot"
                                 /\ data'[t] = EmptyDict]_vars

\* a running cycle holds values that differ from the published snapshot
C7_Witness ==
    /\ published.set
    /\ published.data["bypass_voltage"] = Num(2301, 10, TRUE)
    /\ \E t \in Tasks :
          /\ pc[t] = "reading"
          /\ data[t].data["bypass_voltage"] = NoneValue
          /\ data[t].data["status_word"] = Missing

\* C8: a button press issues exactly one single-register write with the
\* register and the value of its description.
C8_PressWritesOnce ==
    press # NoPress =>
        /\ Len(writes) >= 1
        /\ writes[Len(writes)] = [address |-> press.register, value |-> press.value]

\* C9: a word w decoded as int16 with scale 1 gives w - 65536 for w >= 32768
\* and w for w < 32768, a value in -32768..32767.
C9_Int16 ==
    (/\ decodeOut # Missing
     /\ decodeIn.desc.register.data_type = "int16"
     /\ decodeIn.desc.register.scale \in {IntScale(1), FloatScale(1, 1)}
     /\ decodeIn.desc.value_map = "none"
     /\ Len(decodeIn.words) >= 1)
    => /\ decodeOut.kind = "num"
       /\ decodeOut.den = 1
       /\ LET w == decodeIn.words[1]
              n == decodeOut.hi * 65536 + decodeOut.lo
          IN  /\ w >= 32768 => n = w - 65536
              /\ w < 32768 => n = w
              /\ n \in (0 - 32768)..32767

\* the word 65535 has been decoded to -1
C9_Witness ==
    /\ decodeIn.desc.register.data_type = "int16"
    /\ decodeIn.desc.register.scale = IntScale(1)
    /\ decodeIn.words = <<65535>>
    /\ decodeOut = Wide(0 - 1, 65535, 1, FALSE)

\* C10: a word decoded as uint16 gives the word, unsigned, times the scale of
\* the definition.
C10_Uint16Scaled ==
    (/\ decodeOut # Missing
     /\ decodeIn.desc.register.data_type = "uint16"
     /\ decodeIn.desc.value_map = "none"
     /\ Len(decodeIn.words) >= 1)
    => /\ decodeOut.kind = "num"
       /\ (decodeOut.hi * 65536 + decodeOut.lo) * decodeIn.desc.register.scale.den
              = decodeIn.words[1] * decodeIn.desc.register.scale.num * decodeOut.den

\* C11: a pair of words (w0, w1) decoded as int32 with scale 1 gives
\* w0 * 65536 + w1, w0 being the high half: a value in 0..2^32-1; the pair
\* (0x00FF, 0x0001) gives 16711681.
C11_Int32 ==
    (/\ decodeOut # Missing
     /\ decodeIn.desc.register.data_type = "int32"
     /\ decodeIn.desc.register.scale \in {IntScale(1), FloatScale(1, 1)}
     /\ decodeIn.desc.value_map = "none"
     /\ Len(decodeIn.words) >= 2)
    => /\ decodeOut.kind = "num"
       /\ decodeOut.den = 1
       /\ decodeOut.hi = decodeIn.words[1]
       /\ decodeOut.lo = decodeIn.words[2]
       /\ decodeOut.hi \in 0..65535
       /\ decodeOut.lo \in 0..65535
       /\ (decodeIn.words[1] = 255 /\ decodeIn.words[2] = 1)
              => decodeOut.hi * 65536 + decodeOut.lo = 16711681

\* the pair (0x00FF, 0x0001) has been decoded to 16711681
C11_Witness ==
    /\ decodeIn.desc.register.data_type = "int32"
    /\ decodeIn.desc.register.scale = IntScale(1)
    /\ decodeIn.desc.value_map = "none"
    /\ decodeIn.words = <<255, 1>>
    /\ decodeOut = Num(16711681, 1, FALSE)

\* the bytes of a word list, the high byte of each word before its low byte
Bytes(words) ==
    [i \in 1..(2 * Len(words)) |->
        IF i % 2 = 1 THEN words[(i + 1) \div 2] \div 256 ELSE words[i \div 2] % 256]

NonZero(b) == b # 0

\* C12: the string decoder emits the non-zero bytes of the words in register
\* order, high byte before low byte; a zero byte is skipped and does not end
\* the string; the result is what is left after the leading and the trailing
\* whitespace are removed; the config flow decodes the same words to the same
\* string.
C12_String ==
    (decodeOut # Missing /\ decodeIn.desc.register.data_type = "string")
    => /\ decodeOut.kind = "chars"
       /\ LET emitted == SelectSeq(Bytes(decodeIn.words), NonZero)
              out == decodeOut.chars
          IN  /\ \E i \in 1..(Len(emitted) + 1) :
                     /\ i + Len(out) - 1 <= Len(emitted)
                     /\ out = SubSeq(emitted, i, i + Len(out) - 1)
                     /\ \A k \in 1..(i - 1) : IsSpace(emitted[k])
                     /\ \A k \in (i + Len(out))..Len(emitted) : IsSpace(emitted[k])
              /\ out # <<>> => ~IsSpace(out[1]) /\ ~IsSpace(out[Len(out)])
              /\ out = _test_connection_serial(decodeIn.words)

\* the bytes blank, NUL, "A", blank have been decoded to "A"
C12_Witness ==
    /\ decodeIn.desc.register.data_type = "string"
    /\ decodeIn.words = <<8192, 16672>>
    /\ decodeOut = Chars(<<65>>)

\* the bit ranges of the status word and the map of each
StatusFields ==
    [rectifier_status |-> [offset |-> 0, width |-> 2, map |-> RECTIFIER_STATUS_TEXT],
     inverter_status |-> [offset |-> 2, width |-> 2, map |-> INVERTER_STATUS_TEXT],
     battery_status |-> [offset |-> 4, width |-> 3, map |-> BATTERY_STATUS_TEXT],
     bypass_status |-> [offset |-> 7, width |-> 2, map |-> BYPASS_STATUS_TEXT],
     load_on_status |-> [offset |-> 9, width |-> 2, map |-> LOAD_ON_STATUS_TEXT]]

\* (word >> offset) & ((1 << width) - 1)
Bits(word, offset, width) == (word \div (2 ^ offset)) % (2 ^ width)

FieldCode(word, f) == Bits(word, StatusFields[f].offset, StatusFields[f].width)

Placeholder(code) == Label("Unknown (" \o ToString(code) \o ")")

\* the label a map gives a code, the placeholder for a code it has not
ExpectedLabel(map, code) ==
    IF code \in DOMAIN map THEN Label(map[code]) ELSE Placeholder(code)

\* C13: a value map applied to a decoded number never fails; a code that is
\* no key of the map gives "Unknown (<code>)": for a metric read from a
\* register and for every field of the status word.
C13_UnknownCode ==
    /\ (/\ decodeOut # Missing
        /\ decodeOut # IndexError
        /\ decodeIn.desc.value_map # "none"
        /\ decodeIn.desc.register.data_type # "string")
       => /\ decodeOut.kind = "label"
          /\ decodeIn.desc = SystemModeSensor =>
                LET w == decodeIn.words[1]
                    code == IF w > 32767 THEN w - 65536 ELSE w
                IN  code \notin DOMAIN SYSTEM_MODE_TEXT => decodeOut = Placeholder(code)
    /\ (published.set /\ decodeIn.desc.key = "status_word")
       => \A f \in DOMAIN StatusFields :
             LET code == FieldCode(decodeIn.words[1], f)
             IN  /\ published.data[f].kind = "label"
                 /\ code \notin DOMAIN StatusFields[f].map
                        => published.data[f] = Placeholder(code)

\* register 71 has returned 12, a code SYSTEM_MODE_TEXT has not
C13_Witness ==
    /\ decodeIn.desc = SystemModeSensor
    /\ decodeIn.words = <<12>>
    /\ decodeOut = Label("Unknown (12)")

\* the status word with one bit changed
Flip(word, b) == IF Bits(word, b, 1) = 1 THEN word - 2 ^ b ELSE word + 2 ^ b

FieldBits(f) == StatusFields[f].offset..(StatusFields[f].offset + StatusFields[f].width - 1)

\* C14: _parse_status_word gives, for every 16-bit word, the five labels of
\* the codes (word >> offset) & ((1 << width) - 1) of the ranges 0-1, 2-3, 4-6,
\* 7-8 and 9-10; the ranges do not overlap, and a change of a bit outside the
\* range of a field, the reserved bits 11-15 included, leaves its label as it
\* is.
C14_StatusFields ==
    (published.set /\ decodeIn.desc.key = "status_word")
    => LET word == decodeIn.words[1]
       IN  /\ \A f \in DOMAIN StatusFields :
                  published.data[f] = ExpectedLabel(StatusFields[f].map, FieldCode(word, f))
           /\ \A f, g \in DOMAIN StatusFields : f # g => FieldBits(f) \cap FieldBits(g) = {}
           /\ \A f \in DOMAIN StatusFields : FieldBits(f) \subseteq 0..10
           /\ \A f \in DOMAIN StatusFields : \A b \in (0..15) \ FieldBits(f) :
                  _parse_status_word(Flip(word, b))[f] = published.data[f]

\* the word 0x800E: rectifier 2, inverter 3, battery 0 and reserved bit 15
C14_Witness ==
    /\ decodeIn.desc.key = "status_word"
    /\ decodeIn.words = <<32782>>
    /\ published.set
    /\ published.data["rectifier_status"] = Label("PFC Mode")
    /\ published.data["inverter_status"] = Label("Standby")
    /\ published.data["battery_status"] = Label("Disconnected")
    /\ published.data["bypass_status"] = Label("No Bypass")
    /\ published.data["load_on_status"] = Label("None")

\* C15: for the metric that has a value map, system_mode, and any metric
\* mapped like it and read with scale 1, a read that returns a key k of the
\* map (0..11) is decoded to the label the map gives k: 0 Fault, 1 Power On,
\* 2 Standby, 3 Bypass, 4 Grid, 5 Battery, 6 Battery Check, 7 Fault,
\* 8 Frequency Convert, 9 ECO, 10 Shutdown, 11 Test; never to the placeholder.
C15_MapRoundTrip ==
    (/\ decodeOut # Missing
     /\ decodeIn.desc.value_map = "system_mode"
     /\ decodeIn.desc.register.data_type \in {"int16", "uint16"}
     /\ decodeIn.desc.register.scale \in {IntScale(1), FloatScale(1, 1)}
     /\ Len(decodeIn.words) = 1
     /\ decodeIn.words[1] \in 0..11)
    => LET k == decodeIn.words[1]
           labels == <<"Fault", "Power On", "Standby", "Bypass", "Grid", "Battery",
                       "Battery Check", "Fault", "Frequency Convert", "ECO",
                       "Shutdown", "Test">>
       IN  /\ decodeOut = Label(labels[k + 1])
           /\ decodeOut # Placeholder(k)

\* register 71 has returned 9 and the metric is "ECO"
C15_Witness ==
    /\ decodeIn.desc = SystemModeSensor
    /\ decodeIn.words = <<9>>
    /\ decodeOut = Label("ECO")

\* C16: the constructor obtains a register map for every model identifier
\* and never fails; an identifier that has a map of its own gets that map, any
\* other one, EA660 G4 included, gets the map of EA900 G4.
C16_RegisterMapLookupTotal ==
    /\ sensors # KeyError
    /\ sensors \in {MODEL_REGISTER_MAP[m] : m \in DOMAIN MODEL_REGISTER_MAP}
    /\ model \in DOMAIN MODEL_REGISTER_MAP => sensors = MODEL_REGISTER_MAP[model]
    /\ model \notin DOMAIN MODEL_REGISTER_MAP => sensors = MODEL_REGISTER_MAP[MODEL_EA900_G4]
    /\ MODEL_EA660_G4 \notin DOMAIN MODEL_REGISTER_MAP

\* a coordinator built for EA660 G4 has polled the registers of EA900 G4
C16_Witness ==
    /\ model = MODEL_EA660_G4
    /\ sensors = EA900_G4_SENSORS
    /\ result = "snapshot"
    /\ published.data["serial_number"] = Chars(<<65, 66, 67>>)

\* the entries of the register map that have no register
DerivedKeys == Keys \ DirectKeys

\* the status word of this cycle was read, and the read returned its word
StatusWordRead(t) ==
    \E i \in 1..Len(data[t].reads) :
        data[t].reads[i].key = "status_word" /\ data[t].reads[i].outcome = "ok"

C17_Inv ==
    /\ DerivedKeys = DOMAIN StatusFields
    /\ DOMAIN _parse_status_word(0) = DerivedKeys
    /\ DerivedKeys \cap RegisterKeys = {}
    /\ DirectKeys \subseteq RegisterKeys

\* C17: in the snapshot a cycle returns, the five derived keys are present
\* exactly when the status word was read in that cycle; their values are the
\* labels of the fields of that word; and every key that has a register keeps
\* the value the loop gave it.  No derived key is the key of an entry that
\* has a register.
C17_DerivedStatus ==
    /\ []C17_Inv
    /\ [][\A t \in Tasks : (Finishing(t) /\ result' = "snapshot") =>
              LET snap == published'.data
                  last == sensors[idx[t]]
              IN  /\ \A k \in DerivedKeys : (snap[k] # Missing) <=> StatusWordRead(t)
                  /\ StatusWordRead(t) =>
                        /\ snap["status_word"] = Num(DeviceWords["status_word"][1], 1, FALSE)
                        /\ \A f \in DerivedKeys :
                              snap[f] = ExpectedLabel(StatusFields[f].map,
                                            FieldCode(DeviceWords["status_word"][1], f))
                  /\ ~StatusWordRead(t) => snap["status_word"] = NoneValue
                  /\ \A k \in DirectKeys \ {last.key} : snap[k] = data[t].data[k]
                  /\ snap[last.key] =
                        IF registers[t].none THEN NoneValue
                        ELSE decode_sensor(registers[t].words, last)]_vars

\* a snapshot with the status word 678 and its five labels next to a failed read
C17_Witness ==
    /\ result = "snapshot"
    /\ published.set
    /\ published.data["bypass_voltage"] = NoneValue
    /\ published.data["status_word"] = Num(678, 1, FALSE)
    /\ published.data["rectifier_status"] = Label("PFC Mode")
    /\ published.data["inverter_status"] = Label("Soft Start")
    /\ published.data["battery_status"] = Label("Boost Charging")
    /\ published.data["bypass_status"] = Label("Normal")
    /\ published.data["load_on_status"] = Label("Load on Bypass")

C18_Inv ==
    /\ holder # 0 => InCycle(holder)
    /\ \A i \in 1..Len(waiters) : pc[waiters[i]] = "waiting"

\* C18: however a cycle ends (a snapshot, UpdateFailed, an exception out of a
\* read or out of the decoding), the lock is free in the state it leaves: the
\* lock is held only by an invocation inside its cycle, and an invocation
\* that finds the lock free with nobody queued takes it at once.
C18_LockReleased ==
    /\ []C18_Inv
    /\ [][\A t \in Tasks : (InCycle(t) /\ ~InCycle(t)') =>
              /\ holder' = 0
              /\ pc'[t] = "idle"
              /\ result' \in {"snapshot", "UpdateFailed", "Exception", "IndexError"}]_vars
    /\ [][\A t \in Tasks :
              (pc[t] = "idle" /\ pc'[t] # "idle" /\ holder = 0 /\ waiters = <<>>)
              => holder' = t /\ InCycle(t)']_vars

\* a cycle has ended in an exception and a later cycle holds the lock
C18_Witness ==
    /\ result \in {"Exception", "IndexError"}
    /\ \E t \in Tasks : pc[t] = "reading" /\ holder = t

\* the handle refers to a client that says it is connected
Live(c, table) == c # 0 /\ table[c] = "up"

\* the step in which an invocation enters the body of the async with block
Entering(t) == pc[t] \in {"idle", "waiting"} /\ InCycle(t)'

C19_Inv ==
    (result = "UpdateFailed" /\ \A t \in Tasks : ~InCycle(t)) => ~Live(client, clients)

\* C19: a cycle that ends on a failed connection leaves no live connection;
\* a cycle that starts without a live connection builds a client and awaits
\* its connect() before any read; a cycle that starts with a live connection
\* keeps the client and goes to its first read; and a read is only ever
\* issued on a live connection.
C19_ConnectWhenNotLive ==
    /\ []C19_Inv
    /\ [][\A t \in Tasks :
              (pc[t] = "connecting" /\ pc'[t] = "idle" /\ result' = "UpdateFailed")
              => ~Live(client', clients')]_vars
    /\ [][\A t \in Tasks : (Entering(t) /\ ~Live(client, clients)) =>
              /\ pc'[t] = "connecting"
              /\ client' # 0
              /\ conn'[t] = client'
              /\ clients'[client'] = "new"
              /\ data'[t].reads = <<>>]_vars
    /\ [][\A t \in Tasks : (Entering(t) /\ Live(client, clients)) =>
              /\ pc'[t] = "reading"
              /\ client' = client
              /\ clients' = clients
              /\ conn'[t] = 0]_vars
    /\ [][\A t \in Tasks : (pc[t] # "reading" /\ pc'[t] = "reading")
              => Live(client', clients')]_vars

\* after a failed connection a later cycle awaits the connect() of a new client
C19_Witness ==
    /\ result = "UpdateFailed"
    /\ \E t \in Tasks : pc[t] = "connecting" /\ conn[t] = client
    /\ client # 0
    /\ clients[client] = "new"

C20_Inv ==
    /\ leaked = {}
    /\ Cardinality({o \in ClientIds : clients[o] \in {"up", "down"}}) <= 1

\* C20: at most one client of the coordinator is open (connected at some
\* time and never closed): no client object is left behind open, and when
\* _async_connect builds a new client the one the handle held before is
\* absent, never opened, or closed.
C20_OneActiveClient ==
    /\ []C20_Inv
    /\ [][\A t \in Tasks : (Entering(t) /\ pc'[t] = "connecting" /\ client # 0)
              => clients[client] \notin {"up", "down"}]_vars

\* the last read this invocation issued ended in a protocol error
LastReadFailed(t) ==
    /\ data[t].reads # <<>>
    /\ data[t].reads[Len(data[t].reads)].outcome = "failed"
    /\ data[t].reads[Len(data[t].reads)].key = sensors[idx[t]].key

\* C21: a read that ends in an error response or a ModbusException gives the
\* cycle None for that register and changes neither the client handle nor
\* any client's connection state; when the pacing delay is over and the
\* connection is still live, the next read is issued on the same client; and
\* inside a cycle no connect is attempted after the connection step and the
\* handle changes only by a shutdown.
C21_ProtocolErrorKeepsLink ==
    /\ [][\A t \in Tasks : (ReadError(t) \/ ReadModbusException(t)) =>
              /\ registers'[t] = NoneRegisters
              /\ pc'[t] = "sleeping"
              /\ idx'[t] = idx[t]
              /\ holder' = t
              /\ client' = client
              /\ clients' = clients
              /\ leaked' = leaked
              /\ conn' = conn]_vars
    /\ [][\A t \in Tasks :
              (/\ pc[t] = "sleeping"
               /\ LastReadFailed(t)
               /\ pc'[t] # "sleeping" \/ idx'[t] # idx[t]
               /\ client # 0 /\ clients[client] = "up")
              => /\ client' = client
                 /\ clients' = clients
                 /\ pc'[t] = "reading" \/ (pc'[t] = "idle" /\ result' = "snapshot")
                 /\ published'.set /\ pc'[t] = "idle"
                       => published'.data[sensors[idx[t]].key] = NoneValue
                 /\ pc'[t] = "reading" => data'[t].data[sensors[idx[t]].key] = NoneValue]_vars
    /\ [][\A t \in Tasks : (pc[t] \in {"reading", "sleeping"}) =>
              /\ pc'[t] # "connecting"
              /\ client' # client => client' = 0]_vars

\* the first read of a cycle has failed and the second is in flight on a
\* live connection
C21_Witness ==
    \E t \in Tasks :
        /\ pc[t] = "reading"
        /\ idx[t] = 2
        /\ data[t].reads # <<>>
        /\ data[t].reads[1].outcome = "failed"
        /\ data[t].data["bypass_voltage"] = NoneValue
        /\ client # 0
        /\ clients[client] = "up"

\* the reads of a cycle over the register map of the model, in map order:
\* key, bank, address, count
ExpectedReads ==
    << <<"bypass_voltage", "input", 0, 1>>,
       <<"status_word", "input", 70, 1>>,
       <<"serial_number", "holding", 76, 7>> >>

\* the positions of the register map that have a register, in map order
ExpectedTurns == <<1, 2, 8>>

CallOf(rec) == <<rec.key, rec.input_type, rec.address, rec.count>>

\* the reads an invocation has issued and seen end, as calls
Calls(t) == [i \in 1..Len(data[t].reads) |-> CallOf(data[t].reads[i])]

\* the place of a call in ExpectedReads, 0 when it is none of them
Place(call) ==
    IF \E j \in 1..Len(ExpectedReads) : ExpectedReads[j] = call
    THEN CHOOSE j \in 1..Len(ExpectedReads) : ExpectedReads[j] = call
    ELSE 0

\* the turn of the loop an invocation is in, 0 outside the loop
Turn(i) ==
    IF \E j \in 1..Len(ExpectedTurns) : ExpectedTurns[j] = i
    THEN CHOOSE j \in 1..Len(ExpectedTurns) : ExpectedTurns[j] = i
    ELSE 0

\* the pacing and the lock of a cycle, as the claim and its amendment both
\* state them: the lock is held through every read and delay, a read that
\* ends is followed by the delay of its turn, and a read is issued only at
\* the connection step or when a delay is over
C22_Pacing ==
    /\ [](\A t \in Tasks : pc[t] \in {"reading", "sleeping"} =>
              holder = t /\ Turn(idx[t]) # 0)
    /\ [][\A t \in Tasks : (pc[t] = "reading" /\ pc'[t] # "reading") =>
              \/ pc'[t] = "sleeping" /\ idx'[t] = idx[t]
              \/ pc'[t] = "idle" /\ result' = "Exception"]_vars
    /\ [][\A t \in Tasks : (pc[t] = "sleeping" /\ pc'[t] = "reading") =>
              Turn(idx'[t]) = Turn(idx[t]) + 1]_vars

\* C22 as stated: a cycle that passes the connection step and returns its
\* snapshot has issued exactly one read for each metric that has a register,
\* in map order, with the bank, address and count of the definition, none
\* for a derived metric, with a delay after every read and the lock held.
C22_OneReadPerMetric ==
    /\ C22_Pacing
    /\ [][\A t \in Tasks : (Finishing(t) /\ result' = "snapshot") =>
              Calls(t) = ExpectedReads]_vars

C22_Inv ==
    \A t \in Tasks :
        /\ \A i \in 1..Len(data[t].reads) : Place(Calls(t)[i]) # 0
        /\ \A i, k \in 1..Len(data[t].reads) :
              i < k => Place(Calls(t)[i]) < Place(Calls(t)[k])
        /\ pc[t] \in {"reading", "sleeping"} =>
              \A i \in 1..Len(data[t].reads) : Place(Calls(t)[i]) <= Turn(idx[t])
        /\ pc[t] = "reading" =>
              \A i \in 1..Len(data[t].reads) : Place(Calls(t)[i]) < Turn(idx[t])
        /\ (pc[t] = "sleeping" /\ ~registers[t].none) =>
              /\ data[t].reads # <<>>
              /\ Place(Calls(t)[Len(data[t].reads)]) = Turn(idx[t])

\* C22 as amended: in a cycle that passes the connection step every metric
\* that has a register gets its turn in map order, and no derived metric
\* does; at a turn one read is issued, with the bank, address and count of
\* the definition, exactly when the handle is set and the client connected
\* at that moment, and otherwise no read is issued and the metric is None;
\* so the reads of a cycle are the expected reads in map order with none
\* repeated, though not always all of them; the delay follows every turn,
\* with or without a read; the lock is held throughout; and a cycle returns
\* its snapshot only after the turn of the last such metric.
C22_OneTurnPerMetric ==
    /\ C22_Pacing
    /\ []C22_Inv
    /\ [][\A t \in Tasks : (idx'[t] # idx[t] /\ idx'[t] # 0) =>
              /\ Turn(idx'[t]) = Turn(idx[t]) + 1
              /\ pc'[t] = "reading" <=> (client' # 0 /\ clients'[client'] = "up")
              /\ pc'[t] # "reading" =>
                    /\ pc'[t] = "sleeping"
                    /\ registers'[t] = NoneRegisters
                    /\ data'[t].reads = data[t].reads]_vars
    /\ [][\A t \in Tasks : (pc[t] = "sleeping" /\ registers[t].none
                               /\ (pc'[t] # "sleeping" \/ idx'[t] # idx[t])) =>
              IF pc'[t] = "idle"
              THEN published'.data[ExpectedReads[Turn(idx[t])][1]] = NoneValue
              ELSE data'[t].data[ExpectedReads[Turn(idx[t])][1]] = NoneValue]_vars
    /\ [][\A t \in Tasks : (Finishing(t) /\ result' = "snapshot") =>
              Turn(idx[t]) = Len(ExpectedTurns)]_vars

\* the first two reads were issued, the connection went, and the third
\* metric has its delay without a read
C22_Witness ==
    \E t \in Tasks :
        /\ pc[t] = "sleeping"
        /\ holder = t
        /\ idx[t] = 8
        /\ registers[t].none
        /\ Len(data[t].reads) = 2
        /\ Calls(t) = SubSeq(ExpectedReads, 1, 2)
        /\ ~(client # 0 /\ clients[client] = "up")

\* a cycle is in the delay between two reads and the handle is None: a
\* shutdown has taken effect since the cycle connected
ShutDownBetweenReads(t) == pc[t] = "sleeping" /\ client = 0

\* the invocation takes its next step
Moves(t) == pc'[t] # pc[t] \/ idx'[t] # idx[t]

\* C23: async_shutdown closes the client and clears the handle whoever
\* holds the lock; when it does so while a cycle is between two reads, the
\* cycle issues no further read, records every remaining metric as None and
\* still returns a snapshot, never an exception; and the next cycle builds a
\* new client and awaits its connect().
C23_ShutdownDuringCycle ==
    /\ [][async_shutdown =>
              /\ client' = 0
              /\ clients'[client] \in {"closed", "free"}
              /\ leaked' = leaked
              /\ holder' = holder
              /\ waiters' = waiters
              /\ pc' = pc]_vars
    /\ [][\A t \in Tasks : (ShutDownBetweenReads(t) /\ Moves(t)) =>
              /\ pc'[t] # "reading"
              /\ client' = 0
              /\ \/ /\ pc'[t] = "sleeping"
                    /\ Turn(idx'[t]) = Turn(idx[t]) + 1
                    /\ registers'[t] = NoneRegisters
                    /\ data'[t].reads = data[t].reads
                 \/ /\ pc'[t] = "idle"
                    /\ result' = "snapshot"
                    /\ Turn(idx[t]) = Len(ExpectedTurns)
                    /\ published'.set]_vars
    /\ [][\A t \in Tasks : (Entering(t) /\ client = 0) =>
              /\ pc'[t] = "connecting"
              /\ client' # 0
              /\ clients'[client'] = "new"]_vars

====
